---------------------------- MODULE Spec2Model ----------------------------
(***************************************************************************)
(* The group actor of federa (src/federa/group.py): the Follow, Undo,      *)
(* Create, Delete and default activity handlers, the followers collection  *)
(* and the announce lookup, and the routes make_group and group_info, run  *)
(* by concurrent request workers over the shared tables Group, GroupMember *)
(* and GroupActivity.                                                      *)
(*                                                                         *)
(* A handler is cut into steps at its calls to the storage engine and to   *)
(* the external collaborators (accept_object, announce_object): the code   *)
(* between two such calls only touches the handler's locals and is part of *)
(* the step that follows it.  uuid4() values are numbered in the order of  *)
(* the calls.  announce_object may return or raise; accept_object returns. *)
(***************************************************************************)
EXTENDS Integers, Sequences, FiniteSets, TLC

(***************************************************************************)
(* Bounds of the model.                                                    *)
(***************************************************************************)
\* number of requests received over a behaviour
MaxRequests == 3

\* the request workers: the handlers of two requests may run concurrently
Workers == {1, 2}

(***************************************************************************)
(* Values the requests are drawn from.                                     *)
(***************************************************************************)
GroupIds == {"g1", "g2"}
Actors == {"alice", "bob"}

\* Python's None, and a present value
None == [some |-> FALSE]
Some(v) == [some |-> TRUE, v |-> v]

\* identifiers of created objects, as strings of characters; q is the double
\* quote and b the backslash, the two characters json.dumps escapes
ObjectIds == {<<"o">>, <<"b", "q">>}

\* the "object" of a Create activity: absent, a bare string, or an embedded
\* object with or without an "id"
CreateObjects ==
    {None,
     [some |-> TRUE, kind |-> "str", v |-> <<"o">>],
     [some |-> TRUE, kind |-> "dict", id |-> Some(<<"b", "q">>)],
     [some |-> TRUE, kind |-> "dict", id |-> None]}

\* the "type" of the action inside an Undo activity
InnerTypes == {None, Some("Follow"), Some("follow"), Some("FOLLOW"), Some("Like")}

\* activity types no handler is registered for
UnknownTypes == {"Like"}

VARIABLES
    groups,      \* table Group: the registered ids, each with name and summary
    members,     \* table GroupMember: records id, follower_id, group_id
    activities,  \* table GroupActivity: records id, type, group_id, object
    uuids,       \* number of uuid4() calls made so far
    accepts,     \* accept_object calls made, counted per <<group, follower>>
    announced,   \* announce_object calls made
    procs,       \* each worker's handler, its position and its locals
    response,    \* the response sent last: the request it answers and the result
    nreq,        \* number of requests received so far
    exchanges    \* what a client that sends its requests one at a time has
                 \* seen of its last two: the request, the membership table
                 \* when it was sent, and the result

vars == <<groups, members, activities, uuids, accepts, announced, procs, response,
          nreq, exchanges>>

(***************************************************************************)
(* Pure helpers of the module.                                             *)
(***************************************************************************)
\* url_for(".actor", actor_id=g, _external=True)
ActorUrl(g) == <<"actor", g>>

\* url_for(".announce_activity", announce_id=a, _external=True)
AnnounceUrl(a) == <<"activity", "announce", a>>

\* str.lower() on the inner types above
Lower(s) ==
    CASE s = "Follow" -> "follow"
      [] s = "FOLLOW" -> "follow"
      [] s = "Like" -> "like"
      [] OTHER -> s

\* the results a handler ends with
Done == [kind |-> "done"]
Abort(code, msg) == [kind |-> "abort", code |-> code, msg |-> msg]
Raised(exc) == [kind |-> "raise", exc |-> exc]
Returned(v) == [kind |-> "value", value |-> v]
ReturnedNone == [kind |-> "None"]

Idle == [pc |-> "idle"]

Running(p) == procs[p].pc # "idle"

\* a request goes to the first worker that runs no handler
CanStart(p) ==
    /\ ~Running(p)
    /\ \A q \in Workers : q < p => Running(q)
    /\ nreq < MaxRequests

\* the handler of worker p ends with res, which answers the request op
Respond(p, op, group, actor, res) ==
    /\ procs' = [procs EXCEPT ![p] = Idle]
    /\ response' = [op |-> op, res |-> res]

Finish(p, res) == Respond(p, procs[p].op, procs[p].group, procs[p].actor, res)

\* the handler of worker p goes on, its position and locals being rec
Goto(p, rec) ==
    /\ procs' = [procs EXCEPT ![p] = rec]
    /\ UNCHANGED response

Init ==
    /\ groups = [g \in GroupIds |-> [name |-> g, summary |-> ""]]
    /\ members = {}
    /\ activities = {}
    /\ uuids = 0
    /\ accepts = [k \in GroupIds \X Actors |-> 0]
    /\ announced = {}
    /\ procs = [p \in Workers |-> Idle]
    /\ response = [op |-> "", res |-> ReturnedNone]
    /\ nreq = 0
    /\ exchanges = <<>>

(***************************************************************************)
(* follow                                                                  *)
(***************************************************************************)
\* the count query with key and filter taken from each other's value
FollowCountSwapped(group, follower) ==
    Cardinality({m \in members : m.follower_id = group /\ m.group_id = follower})

\* the count query of follow: by_follower, key follower_id, filter group_id
FollowCount(group, follower) ==
    Cardinality({m \in members : m.follower_id = follower /\ m.group_id = group})

\* db.engine.save of a GroupMember: an item is stored under its id
SaveMember(table, member) ==
    {m \in table : m.id # member.id} \cup {member}

\* the handler is entered and checks the target
Follow(p, actor, g, target) ==
    /\ CanStart(p)
    /\ g \in DOMAIN groups
    /\ nreq' = nreq + 1
    /\ IF target # ActorUrl(g)
       THEN Respond(p, "Follow", g, actor, Abort(400, "Wrong target"))
       ELSE Goto(p, [pc |-> "follow_query", op |-> "Follow", group |-> g, actor |-> actor])
    /\ UNCHANGED <<groups, members, activities, uuids, accepts, announced>>

FollowQuery(p) ==
    /\ procs[p].pc = "follow_query"
    /\ IF FollowCount(procs[p].group, procs[p].actor) > 0
       THEN Finish(p, Done)
       ELSE Goto(p, [procs[p] EXCEPT !.pc = "follow_save"])
    /\ UNCHANGED <<groups, members, activities, uuids, accepts, announced, nreq>>

FollowSave(p) ==
    /\ procs[p].pc = "follow_save"
    /\ uuids' = uuids + 1
    /\ members' = SaveMember(members,
            [id |-> uuids + 1, follower_id |-> procs[p].actor, group_id |-> procs[p].group])
    /\ Goto(p, [procs[p] EXCEPT !.pc = "follow_accept"])
    /\ UNCHANGED <<groups, activities, accepts, announced, nreq>>

\* accept_object, and the handler returns
FollowAccept(p) ==
    /\ procs[p].pc = "follow_accept"
    /\ accepts' = [accepts EXCEPT ![<<procs[p].group, procs[p].actor>>] = @ + 1]
    /\ Finish(p, Done)
    /\ UNCHANGED <<groups, members, activities, uuids, announced, nreq>>

(***************************************************************************)
(* undo                                                                    *)
(***************************************************************************)
\* the query of undo without its filter
UndoQueryRowsUnfiltered(group, follower) ==
    {m \in members : m.follower_id = follower}

\* the query of undo: by_follower, key follower_id, filter group_id
UndoQueryRows(group, follower) ==
    {m \in members : m.follower_id = follower /\ m.group_id = group}

\* a delete that removes the items of the member's group
DeleteMemberByGroup(table, member) ==
    {m \in table : m.group_id # member.group_id}

\* db.engine.delete of a GroupMember: the item stored under its id is removed
DeleteMember(table, member) ==
    {m \in table : m.id # member.id}

\* the handler is entered and checks the inner action: its type, its actor
\* and its target; type.lower() on a missing type raises AttributeError
Undo(p, actor, g, inner_type, inner_actor, target) ==
    /\ CanStart(p)
    /\ g \in DOMAIN groups
    /\ nreq' = nreq + 1
    /\ IF ~inner_type.some
         THEN Respond(p, "Undo", g, actor, Raised("AttributeError"))
       ELSE IF Lower(inner_type.v) # "follow"
         THEN Respond(p, "Undo", g, actor, Done)
       ELSE IF inner_actor # actor
         THEN Respond(p, "Undo", g, actor, Abort(400, "Inconsistant follow activity"))
       ELSE IF target # ActorUrl(g)
         THEN Respond(p, "Undo", g, actor, Abort(400, "Wrong target"))
       ELSE Goto(p, [pc |-> "undo_query", op |-> "Undo", group |-> g, actor |-> actor])
    /\ UNCHANGED <<groups, members, activities, uuids, accepts, announced>>

\* q.first(): some row of the query, ConstraintViolation when there is none
UndoQuery(p) ==
    /\ procs[p].pc = "undo_query"
    /\ LET rows == UndoQueryRows(procs[p].group, procs[p].actor)
       IN IF rows = {}
          THEN Finish(p, Done)
          ELSE \E m \in rows :
                  Goto(p, [pc |-> "undo_delete", op |-> "Undo", group |-> procs[p].group,
                           actor |-> procs[p].actor, membership |-> m])
    /\ UNCHANGED <<groups, members, activities, uuids, accepts, announced, nreq>>

UndoDelete(p) ==
    /\ procs[p].pc = "undo_delete"
    /\ members' = DeleteMember(members, procs[p].membership)
    /\ Finish(p, Done)
    /\ UNCHANGED <<groups, activities, uuids, accepts, announced, nreq>>

(***************************************************************************)
(* create                                                                  *)
(***************************************************************************)
\* the sequences that enumerate the finite set S, each element once
Enumerations(S) ==
    {s \in [1..Cardinality(S) -> S] : \A i, j \in 1..Cardinality(S) : s[i] = s[j] => i = j}

Range(s) == {s[i] : i \in DOMAIN s}

\* group_members without the key of its query: the rows of every group
GroupMembersOfAll(group_id) ==
    {[i \in DOMAIN rows |-> rows[i].follower_id] : rows \in Enumerations(members)}

\* group_members: the follower_id of every row of by_group with this group_id,
\* in the order the store enumerates them, which is any order
GroupMembers(group_id) ==
    {[i \in DOMAIN rows |-> rows[i].follower_id] :
        rows \in Enumerations({m \in members : m.group_id = group_id})}

\* json.dumps of a string: the characters between double quotes, a double
\* quote and a backslash each behind a backslash
RECURSIVE JsonEscape(_)
JsonEscape(s) ==
    IF s = <<>> THEN <<>>
    ELSE (IF Head(s) \in {"q", "b"} THEN <<"b", Head(s)>> ELSE <<Head(s)>>)
         \o JsonEscape(Tail(s))

\* a dump that puts the characters between double quotes as they are
JsonDumpsUnescaped(s) == <<"q">> \o s \o <<"q">>

JsonDumps(s) == <<"q">> \o JsonEscape(s) \o <<"q">>

\* json.loads of a string literal
RECURSIVE JsonUnescape(_)
JsonUnescape(s) ==
    IF s = <<>> THEN <<>>
    ELSE IF Head(s) = "b" /\ Len(s) >= 2
         THEN <<s[2]>> \o JsonUnescape(SubSeq(s, 3, Len(s)))
         ELSE <<Head(s)>> \o JsonUnescape(Tail(s))

JsonLoads(s) == JsonUnescape(SubSeq(s, 2, Len(s) - 1))

\* the same with a default: activity_details.get("id", "o")
ActivityIdDefaulted(activity_details) ==
    IF activity_details.kind = "str" THEN Some(activity_details.v)
    ELSE IF activity_details.id.some THEN activity_details.id
    ELSE Some(<<"o">>)

\* activity_details if it is a str, else activity_details.get("id")
ActivityId(activity_details) ==
    IF activity_details.kind = "str" THEN Some(activity_details.v)
    ELSE activity_details.id

\* the set left as it is
DiscardNothing(set, actor) == set

\* members.discard(actor)
Discard(set, actor) == set \ {actor}

\* a save that stores an item under its group_id
SaveActivityByGroup(table, announce) ==
    {a \in table : a.group_id # announce.group_id} \cup {announce}

\* db.engine.save of a GroupActivity: an item is stored under its id
SaveActivity(table, announce) ==
    {a \in table : a.id # announce.id} \cup {announce}

SerializeAnnounce(announce) ==
    [id |-> AnnounceUrl(announce.id),
     type |-> announce.type,
     actor |-> ActorUrl(announce.group_id),
     object |-> JsonLoads(announce.object)]

\* the handler is entered and extracts the id of the created object
Create(p, actor, g, activity_details) ==
    /\ CanStart(p)
    /\ g \in DOMAIN groups
    /\ nreq' = nreq + 1
    /\ IF ~activity_details.some
         THEN Respond(p, "Create", g, actor, Abort(400, "activity not detailed"))
       ELSE IF ~ActivityId(activity_details).some
         THEN Respond(p, "Create", g, actor, Abort(400, "not external activity id"))
       ELSE Goto(p, [pc |-> "create_members", op |-> "Create", group |-> g,
                     actor |-> actor, object |-> activity_details,
                     activity_id |-> ActivityId(activity_details).v])
    /\ UNCHANGED <<groups, members, activities, uuids, accepts, announced>>

\* the membership is read, the actor is looked up in it, and the recipients,
\* the announce id and the announce uri (a tuple of one url) are computed
CreateMembers(p) ==
    /\ procs[p].pc = "create_members"
    /\ \E list \in GroupMembers(procs[p].group) :
          IF procs[p].actor \notin Range(list)
          THEN /\ Finish(p, Abort(401, "actor needs to be member of the group"))
               /\ uuids' = uuids
          ELSE /\ Goto(p, [pc |-> "create_announce", op |-> "Create",
                           group |-> procs[p].group, actor |-> procs[p].actor,
                           object |-> procs[p].object,
                           activity_id |-> procs[p].activity_id,
                           members |-> Discard(Range(list), procs[p].actor),
                           announce_id |-> uuids + 1,
                           announce_uri |-> <<AnnounceUrl(uuids + 1)>>])
               /\ uuids' = uuids + 1
    /\ UNCHANGED <<groups, members, activities, accepts, announced, nreq>>

\* the announce_object call made by the handler
AnnounceCall(p) ==
    [group |-> procs[p].group, members |-> procs[p].members,
     activity_id |-> procs[p].activity_id, announce_uri |-> procs[p].announce_uri]

\* announce_object returns
CreateAnnounce(p) ==
    /\ procs[p].pc = "create_announce"
    /\ announced' = announced \cup {AnnounceCall(p)}
    /\ Goto(p, [procs[p] EXCEPT !.pc = "create_save"])
    /\ UNCHANGED <<groups, members, activities, uuids, accepts, nreq>>

\* announce_object raises: nothing in create catches it
CreateAnnounceRaise(p) ==
    /\ procs[p].pc = "create_announce"
    /\ announced' = announced \cup {AnnounceCall(p)}
    /\ Finish(p, Raised("announce_object"))
    /\ UNCHANGED <<groups, members, activities, uuids, accepts, nreq>>

\* the GroupActivity the handler builds
Announce(p) ==
    [id |-> procs[p].announce_id, type |-> "Announce", group_id |-> procs[p].group,
     object |-> JsonDumps(procs[p].activity_id)]

CreateSave(p) ==
    /\ procs[p].pc = "create_save"
    /\ activities' = SaveActivity(activities, Announce(p))
    /\ Finish(p, Returned(SerializeAnnounce(Announce(p))))
    /\ UNCHANGED <<groups, members, uuids, accepts, announced, nreq>>

(***************************************************************************)
(* delete and the default handler: a print, and None is returned           *)
(***************************************************************************)
\* a delete handler that removes the edge of its actor to the group
DeleteUnfollowing(p, actor, g) ==
    /\ CanStart(p)
    /\ g \in DOMAIN groups
    /\ nreq' = nreq + 1
    /\ Respond(p, "Delete", g, actor, ReturnedNone)
    /\ members' = {m \in members : m.follower_id # actor \/ m.group_id # g}
    /\ UNCHANGED <<groups, activities, uuids, accepts, announced>>

Delete(p, actor, g) ==
    /\ CanStart(p)
    /\ g \in DOMAIN groups
    /\ nreq' = nreq + 1
    /\ Respond(p, "Delete", g, actor, ReturnedNone)
    /\ UNCHANGED <<groups, members, activities, uuids, accepts, announced>>

FollowDefault(p, actor, g, type) ==
    /\ CanStart(p)
    /\ g \in DOMAIN groups
    /\ nreq' = nreq + 1
    /\ Respond(p, type, g, actor, ReturnedNone)
    /\ UNCHANGED <<groups, members, activities, uuids, accepts, announced>>

(***************************************************************************)
(* followers                                                               *)
(***************************************************************************)
\* the count query without its key: the rows of every group
FollowersCountOfAll(group) ==
    Cardinality(members)

\* the count query of followers: by_group, key group_id
FollowersCount(group) ==
    Cardinality({m \in members : m.group_id = group})

Followers(p, g) ==
    /\ CanStart(p)
    /\ g \in DOMAIN groups
    /\ nreq' = nreq + 1
    /\ Goto(p, [pc |-> "followers_count", op |-> "followers", group |-> g, actor |-> ""])
    /\ UNCHANGED <<groups, members, activities, uuids, accepts, announced>>

Collection(total_items, ordered_items) ==
    [type |-> "OrderedCollection", totalItems |-> total_items,
     orderedItems |-> ordered_items]

FollowersQuery(p) ==
    /\ procs[p].pc = "followers_count"
    /\ IF FollowersCount(procs[p].group) > 0
       THEN Goto(p, [pc |-> "followers_list", op |-> "followers",
                     group |-> procs[p].group, actor |-> "",
                     total_items |-> FollowersCount(procs[p].group)])
       ELSE Finish(p, Returned(Collection(0, <<>>)))
    /\ UNCHANGED <<groups, members, activities, uuids, accepts, announced, nreq>>

FollowersList(p) ==
    /\ procs[p].pc = "followers_list"
    /\ \E list \in GroupMembers(procs[p].group) :
          Finish(p, Returned(Collection(procs[p].total_items, list)))
    /\ UNCHANGED <<groups, members, activities, uuids, accepts, announced, nreq>>

(***************************************************************************)
(* announce_activity                                                       *)
(***************************************************************************)
\* the result of the lookup of an announce id in the GroupActivity table
AnnounceLookup(table, announce_id) ==
    LET rows == {a \in table : a.id = announce_id}
    IN IF rows = {} THEN Abort(404, "")
       ELSE LET announce == CHOOSE a \in rows : TRUE
            IN IF announce.type # "Announce" THEN Abort(404, "")
               ELSE Returned(SerializeAnnounce(announce))

AnnounceActivity(p, announce_id) ==
    /\ CanStart(p)
    /\ nreq' = nreq + 1
    /\ Respond(p, "announce_activity", "", "", AnnounceLookup(activities, announce_id))
    /\ UNCHANGED <<groups, members, activities, uuids, accepts, announced>>

(***************************************************************************)
(* make_group                                                              *)
(***************************************************************************)
\* the longest group_name, name and summary make_group takes
MaxGroupNameLen == 128
MaxNameLen == 256
MaxSummaryLen == 2560

\* a string of a request, by its text and its length
Str(text, len) == Some([text |-> text, len |-> len])

\* the fields of the json of a make_group request, each absent or a string
GroupNameFields ==
    {None, Str("g1", 2), Str("g3", 2), Str("g-long", MaxGroupNameLen + 1)}
NameFields == {None, Str("n1", 2), Str("n2", 2), Str("n-long", MaxNameLen + 1)}
SummaryFields == {None, Str("s1", 2), Str("s-long", MaxSummaryLen + 1)}

\* find_group: q.one() of the query by id, None on ConstraintViolation
FindGroup(table, group_id) ==
    IF group_id \in DOMAIN table
    THEN Some([id |-> group_id, name |-> table[group_id].name,
               summary |-> table[group_id].summary])
    ELSE None

\* db.engine.save of a Group: the item is stored under its id, in the place
\* of the item that was stored under it, if any
SaveGroup(table, group) ==
    [id \in DOMAIN table \cup {group.id} |->
        IF id = group.id THEN [name |-> group.name, summary |-> group.summary]
        ELSE table[id]]

\* the handler is entered, fills in the defaults and checks the lengths
MakeGroup(p, group_name, name, summary) ==
    /\ CanStart(p)
    /\ nreq' = nreq + 1
    /\ IF ~group_name.some
       THEN Respond(p, "make_group", "", "", Abort(400, "Needs group_name"))
       ELSE LET n == IF name.some THEN name.v ELSE group_name.v
                s == IF summary.some THEN summary.v ELSE [text |-> "", len |-> 0]
            IN IF group_name.v.len > MaxGroupNameLen
                 THEN Respond(p, "make_group", "", "", Abort(400, "group_name too long"))
               ELSE IF n.len > MaxNameLen
                 THEN Respond(p, "make_group", "", "", Abort(400, "group_name too long"))
               ELSE IF s.len > MaxSummaryLen
                 THEN Respond(p, "make_group", "", "", Abort(400, "summary too long"))
               ELSE Goto(p, [pc |-> "make_group_find", op |-> "make_group",
                             group |-> group_name.v.text, actor |-> "",
                             name |-> n.text, summary |-> s.text])
    /\ UNCHANGED <<groups, members, activities, uuids, accepts, announced>>

\* find_group(group_name), and abort(403) if it found a Group
MakeGroupFind(p) ==
    /\ procs[p].pc = "make_group_find"
    /\ IF FindGroup(groups, procs[p].group).some
       THEN Finish(p, Abort(403, ""))
       ELSE Goto(p, [procs[p] EXCEPT !.pc = "make_group_save"])
    /\ UNCHANGED <<groups, members, activities, uuids, accepts, announced, nreq>>

\* the Group is saved and {"ok": true} returned
MakeGroupSave(p) ==
    /\ procs[p].pc = "make_group_save"
    /\ groups' = SaveGroup(groups, [id |-> procs[p].group, name |-> procs[p].name,
                                    summary |-> procs[p].summary])
    /\ Finish(p, Returned([ok |-> TRUE]))
    /\ UNCHANGED <<members, activities, uuids, accepts, announced, nreq>>

\* group_info: find_group, 404 if there is none, else the Group and the
\* followers that group_members lists; the two reads are one step, as the
\* second reads a table that no administrative request writes
GroupInfo(p, group_name) ==
    /\ CanStart(p)
    /\ nreq' = nreq + 1
    /\ LET group == FindGroup(groups, group_name)
       IN IF ~group.some
          THEN Respond(p, "group_info", "", "", Abort(404, ""))
          ELSE \E list \in GroupMembers(group.v.id) :
                  Respond(p, "group_info", "", "",
                          Returned([group_name |-> group.v.id, name |-> group.v.name,
                                    summary |-> group.v.summary, members |-> list]))
    /\ UNCHANGED <<groups, members, activities, uuids, accepts, announced>>

(***************************************************************************)
(* The requests received and the steps of the handlers.                    *)
(***************************************************************************)
\* the inner action of an Undo is a Follow of group g by the actor itself
IsUndoFollow(actor, g, inner_type, inner_actor, target) ==
    /\ inner_type \in {Some("Follow"), Some("follow"), Some("FOLLOW")}
    /\ inner_actor = actor
    /\ target = ActorUrl(g)

Next ==
    \E p \in Workers :
        \/ \E a \in Actors, g \in GroupIds, t \in GroupIds :
              Follow(p, a, g, ActorUrl(t)) /\ UNCHANGED exchanges
        \/ FollowQuery(p) /\ UNCHANGED exchanges
        \/ FollowSave(p) /\ UNCHANGED exchanges
        \/ FollowAccept(p) /\ UNCHANGED exchanges
        \/ \E a \in Actors, g \in GroupIds, ty \in InnerTypes, ia \in Actors, t \in GroupIds :
              Undo(p, a, g, ty, ia, ActorUrl(t)) /\ UNCHANGED exchanges
        \/ UndoQuery(p) /\ UNCHANGED exchanges
        \/ UndoDelete(p) /\ UNCHANGED exchanges
        \/ \E a \in Actors, g \in GroupIds, o \in CreateObjects :
              Create(p, a, g, o) /\ UNCHANGED exchanges
        \/ CreateMembers(p) /\ UNCHANGED exchanges
        \/ CreateAnnounce(p) /\ UNCHANGED exchanges
        \/ CreateAnnounceRaise(p) /\ UNCHANGED exchanges
        \/ CreateSave(p) /\ UNCHANGED exchanges
        \/ \E a \in Actors, g \in GroupIds :
              Delete(p, a, g) /\ UNCHANGED exchanges
        \/ \E a \in Actors, g \in GroupIds, ty \in UnknownTypes :
              FollowDefault(p, a, g, ty) /\ UNCHANGED exchanges
        \/ \E g \in GroupIds : Followers(p, g) /\ UNCHANGED exchanges
        \/ FollowersQuery(p) /\ UNCHANGED exchanges
        \/ FollowersList(p) /\ UNCHANGED exchanges
        \/ \E id \in 0..uuids : AnnounceActivity(p, id) /\ UNCHANGED exchanges

\* requests from any number of peers, handled concurrently
Spec == Init /\ [][Next]_vars

(***************************************************************************)
(* The same, started over the tables an earlier run left: alice and bob    *)
(* have followed g1.                                                       *)
(***************************************************************************)
InitPersisted ==
    /\ groups = [g \in GroupIds |-> [name |-> g, summary |-> ""]]
    /\ members = {[id |-> 1, follower_id |-> "alice", group_id |-> "g1"],
                  [id |-> 2, follower_id |-> "bob", group_id |-> "g1"]}
    /\ activities = {}
    /\ uuids = 2
    /\ accepts = [k \in GroupIds \X Actors |-> 0]
    /\ announced = {}
    /\ procs = [p \in Workers |-> Idle]
    /\ response = [op |-> "", res |-> ReturnedNone]
    /\ nreq = 0
    /\ exchanges = <<>>

SpecPersisted == InitPersisted /\ [][Next]_vars

(***************************************************************************)
(* One client that sends a request only when the one before is answered.   *)
(***************************************************************************)
Quiescent == \A p \in Workers : ~Running(p)

Pending == [kind |-> "pending"]

LastTwo(s) == IF Len(s) > 2 THEN Tail(s) ELSE s

\* the client sends a request; ok: it is a Follow, or an Undo of a Follow,
\* of the group it is sent to, by the actor itself
Sent(op, g, actor, ok) ==
    exchanges' = LastTwo(Append(exchanges,
        [op |-> op, group |-> g, actor |-> actor, ok |-> ok, before |-> members,
         res |-> IF Quiescent' THEN response'.res ELSE Pending]))

\* a step of the handler of the request sent last
Handled ==
    exchanges' = IF Quiescent'
                 THEN [exchanges EXCEPT ![Len(exchanges)].res = response'.res]
                 ELSE exchanges

NextSeq ==
    \E p \in Workers :
        \/ \E a \in Actors, g \in GroupIds, t \in GroupIds :
              /\ Quiescent
              /\ Follow(p, a, g, ActorUrl(t))
              /\ Sent("Follow", g, a, t = g)
        \/ FollowQuery(p) /\ Handled
        \/ FollowSave(p) /\ Handled
        \/ FollowAccept(p) /\ Handled
        \/ \E a \in Actors, g \in GroupIds, ty \in InnerTypes, ia \in Actors, t \in GroupIds :
              /\ Quiescent
              /\ Undo(p, a, g, ty, ia, ActorUrl(t))
              /\ Sent("Undo", g, a, IsUndoFollow(a, g, ty, ia, ActorUrl(t)))
        \/ UndoQuery(p) /\ Handled
        \/ UndoDelete(p) /\ Handled
        \/ \E a \in Actors, g \in GroupIds, o \in CreateObjects :
              /\ Quiescent
              /\ Create(p, a, g, o)
              /\ Sent("Create", g, a, FALSE)
        \/ CreateMembers(p) /\ Handled
        \/ CreateAnnounce(p) /\ Handled
        \/ CreateAnnounceRaise(p) /\ Handled
        \/ CreateSave(p) /\ Handled
        \/ \E a \in Actors, g \in GroupIds :
              /\ Quiescent
              /\ Delete(p, a, g)
              /\ Sent("Delete", g, a, FALSE)
        \/ \E a \in Actors, g \in GroupIds, ty \in UnknownTypes :
              /\ Quiescent
              /\ FollowDefault(p, a, g, ty)
              /\ Sent(ty, g, a, FALSE)
        \/ \E g \in GroupIds :
              /\ Quiescent
              /\ Followers(p, g)
              /\ Sent("followers", g, "", FALSE)
        \/ FollowersQuery(p) /\ Handled
        \/ FollowersList(p) /\ Handled
        \/ \E id \in 0..uuids :
              /\ Quiescent
              /\ AnnounceActivity(p, id)
              /\ Sent("announce_activity", "", "", FALSE)

SpecSeq == Init /\ [][NextSeq]_vars

(***************************************************************************)
(* The administration of the groups: make_group and group_info requests,   *)
(* handled concurrently.  No activity handler writes the table Group, and  *)
(* make_group reads and writes no other table.                             *)
(***************************************************************************)
NextAdmin ==
    \E p \in Workers :
        \/ \E group_name \in GroupNameFields, name \in NameFields,
              summary \in SummaryFields :
              MakeGroup(p, group_name, name, summary) /\ UNCHANGED exchanges
        \/ MakeGroupFind(p) /\ UNCHANGED exchanges
        \/ MakeGroupSave(p) /\ UNCHANGED exchanges
        \/ \E group_name \in {"g1", "g3"} :
              GroupInfo(p, group_name) /\ UNCHANGED exchanges

SpecAdmin == Init /\ [][NextAdmin]_vars

(***************************************************************************)
(* The same requests, but a Follow of a group by a follower and an Undo of *)
(* that Follow are never handled at the same time: the peer sends the one  *)
(* only when the other is answered.  All else is handled concurrently.     *)
(***************************************************************************)
Apart ==
    \A p, q \in Workers :
        ~(/\ procs[p].pc \in {"follow_query", "follow_save", "follow_accept"}
          /\ procs[q].pc \in {"undo_query", "undo_delete"}
          /\ procs[p].group = procs[q].group
          /\ procs[p].actor = procs[q].actor)

NextApart ==
    \E p \in Workers :
        \/ \E a \in Actors, g \in GroupIds, t \in GroupIds :
              Follow(p, a, g, ActorUrl(t)) /\ UNCHANGED exchanges /\ Apart'
        \/ FollowQuery(p) /\ UNCHANGED exchanges /\ Apart'
        \/ FollowSave(p) /\ UNCHANGED exchanges /\ Apart'
        \/ FollowAccept(p) /\ UNCHANGED exchanges /\ Apart'
        \/ \E a \in Actors, g \in GroupIds, ty \in InnerTypes, ia \in Actors, t \in GroupIds :
              Undo(p, a, g, ty, ia, ActorUrl(t)) /\ UNCHANGED exchanges /\ Apart'
        \/ UndoQuery(p) /\ UNCHANGED exchanges /\ Apart'
        \/ UndoDelete(p) /\ UNCHANGED exchanges /\ Apart'
        \/ \E a \in Actors, g \in GroupIds, o \in CreateObjects :
              Create(p, a, g, o) /\ UNCHANGED exchanges /\ Apart'
        \/ CreateMembers(p) /\ UNCHANGED exchanges /\ Apart'
        \/ CreateAnnounce(p) /\ UNCHANGED exchanges /\ Apart'
        \/ CreateAnnounceRaise(p) /\ UNCHANGED exchanges /\ Apart'
        \/ CreateSave(p) /\ UNCHANGED exchanges /\ Apart'
        \/ \E a \in Actors, g \in GroupIds :
              Delete(p, a, g) /\ UNCHANGED exchanges /\ Apart'
        \/ \E a \in Actors, g \in GroupIds, ty \in UnknownTypes :
              FollowDefault(p, a, g, ty) /\ UNCHANGED exchanges /\ Apart'
        \/ \E g \in GroupIds : Followers(p, g) /\ UNCHANGED exchanges /\ Apart'
        \/ FollowersQuery(p) /\ UNCHANGED exchanges /\ Apart'
        \/ FollowersList(p) /\ UNCHANGED exchanges /\ Apart'
        \/ \E id \in 0..uuids : AnnounceActivity(p, id) /\ UNCHANGED exchanges /\ Apart'


SpecApart == Init /\ [][NextApart]_vars

(***************************************************************************)
(* The vocabulary of the properties.                                       *)
(***************************************************************************)
\* the edges of follower f to group g in a membership table
EdgesOf(table, g, f) == {m \in table : m.group_id = g /\ m.follower_id = f}

\* the followers that have an edge to group g in a membership table
MembersOf(table, g) == {m.follower_id : m \in {x \in table : x.group_id = g}}

\* the handler that worker p runs takes a step
Steps(p) == Running(p) /\ procs'[p] # procs[p]

\* the handler that worker p runs takes its last step
Ends(p) == Running(p) /\ ~Running(p)'

(***************************************************************************)
(* C1: in every reachable state the membership table holds at most one     *)
(* edge per (group, follower) pair, also while several Follow handlers of  *)
(* the same pair run concurrently.                                         *)
(***************************************************************************)
AtMostOneEdgePerPair ==
    \A g \in GroupIds, f \in Actors : Cardinality(EdgesOf(members, g, f)) <= 1

(***************************************************************************)
(* C2: two Follow activities of the same follower to the same group, with  *)
(* the right target, the second sent after the first was answered: both    *)
(* are answered "done", exactly one edge of the pair exists afterwards,    *)
(* and the second leaves the membership table as it found it.              *)
(***************************************************************************)
FollowedTwice ==
    /\ Quiescent
    /\ Len(exchanges) = 2
    /\ \A i \in {1, 2} : exchanges[i].op = "Follow" /\ exchanges[i].ok
    /\ exchanges[1].group = exchanges[2].group
    /\ exchanges[1].actor = exchanges[2].actor

IdempotentFollow ==
    FollowedTwice =>
        /\ exchanges[1].res = Done
        /\ exchanges[2].res = Done
        /\ Cardinality(EdgesOf(members, exchanges[2].group, exchanges[2].actor)) = 1
        /\ members = exchanges[2].before

\* the first Follow created the edge, the second found it
IdempotentFollowWitness ==
    /\ FollowedTwice
    /\ EdgesOf(exchanges[1].before, exchanges[1].group, exchanges[1].actor) = {}
    /\ accepts[<<exchanges[1].group, exchanges[1].actor>>] = 1

(***************************************************************************)
(* C3: an Undo of a Follow, with consistent actor and right target, whose  *)
(* lookup finds no edge of the pair, is answered "done" by that very step  *)
(* and changes no table and calls no collaborator.                         *)
(***************************************************************************)
UndoOfNothing ==
    [][\A p \in Workers :
          (/\ procs[p].pc = "undo_query"
           /\ Steps(p)
           /\ EdgesOf(members, procs[p].group, procs[p].actor) = {})
          => /\ ~Running(p)'
             /\ response' = [op |-> "Undo", res |-> Done]
             /\ UNCHANGED <<groups, members, activities, accepts, announced>>]_vars

\* an Undo is at its lookup, the follower has no edge to the group, and the
\* membership table is not empty
UndoOfNothingWitness ==
    \E p \in Workers :
        /\ procs[p].pc = "undo_query"
        /\ EdgesOf(members, procs[p].group, procs[p].actor) = {}
        /\ members # {}

(***************************************************************************)
(* C4: a Follow of group G by a follower F that is no member of G, then    *)
(* the Undo of that Follow, sent one after the other: the membership table *)
(* is what it was before the Follow, F is no member of G and every other   *)
(* member is still one.                                                    *)
(***************************************************************************)
FollowedThenUndone ==
    /\ Quiescent
    /\ Len(exchanges) = 2
    /\ exchanges[1].op = "Follow" /\ exchanges[1].ok
    /\ exchanges[2].op = "Undo" /\ exchanges[2].ok
    /\ exchanges[1].group = exchanges[2].group
    /\ exchanges[1].actor = exchanges[2].actor
    /\ exchanges[1].actor \notin MembersOf(exchanges[1].before, exchanges[1].group)

FollowUndoInverse ==
    FollowedThenUndone =>
        /\ MembersOf(members, exchanges[1].group)
              = MembersOf(exchanges[1].before, exchanges[1].group)
        /\ exchanges[1].actor \notin MembersOf(members, exchanges[1].group)
        /\ members = exchanges[1].before

\* the group had another member before the Follow
FollowUndoInverseWitness ==
    /\ FollowedThenUndone
    /\ MembersOf(exchanges[1].before, exchanges[1].group) # {}
    /\ exchanges[2].res = Done

(***************************************************************************)
(* C5: a Create whose read of the membership does not find its actor among *)
(* the members of the group is answered with the rejection 401 by that     *)
(* very step; no GroupActivity is stored and announce_object is not        *)
(* called.                                                                 *)
(***************************************************************************)
NotAMember == Abort(401, "actor needs to be member of the group")

CreateByNonMember ==
    [][\A p \in Workers :
          (/\ procs[p].pc = "create_members"
           /\ Steps(p)
           /\ procs[p].actor \notin MembersOf(members, procs[p].group))
          => /\ ~Running(p)'
             /\ response' = [op |-> "Create", res |-> NotAMember]
             /\ UNCHANGED <<activities, announced, members>>]_vars

\* a Create was rejected although its actor follows another group
CreateByNonMemberWitness ==
    /\ response = [op |-> "Create", res |-> NotAMember]
    /\ members # {}
    /\ activities = {}
    /\ announced = {}

(***************************************************************************)
(* C6: the recipients a Create hands to announce_object are the members of *)
(* the group as the Create read them, without its own actor: the actor is  *)
(* not among them, no one else is, and no other member is left out.        *)
(***************************************************************************)
FanOutExcludesOriginator ==
    [][\A p \in Workers :
          /\ (procs[p].pc = "create_members" /\ Steps(p) /\ Running(p)')
             => /\ procs'[p].pc = "create_announce"
                /\ procs'[p].members = MembersOf(members, procs[p].group) \ {procs[p].actor}
          /\ (procs[p].pc = "create_announce" /\ Steps(p))
             => \E call \in announced' \ announced :
                   /\ announced' = announced \cup {call}
                   /\ call.group = procs[p].group
                   /\ call.members = procs[p].members
                   /\ procs[p].actor \notin call.members]_vars

\* announce_object was called with a recipient
FanOutExcludesOriginatorWitness ==
    \E call \in announced : call.members # {}

(***************************************************************************)
(* C7: a GroupActivity once stored stays stored as it is, and the lookup   *)
(* of its id keeps returning the record that the Create which stored it    *)
(* returned, whatever is processed afterwards.                             *)
(***************************************************************************)
LedgerPermanence ==
    [][/\ \A a \in activities :
             /\ a \in activities'
             /\ AnnounceLookup(activities', a.id) = AnnounceLookup(activities, a.id)
             /\ AnnounceLookup(activities, a.id) = Returned(SerializeAnnounce(a))
       /\ \A p \in Workers :
             (procs[p].pc = "create_save" /\ Steps(p))
             => /\ response'.res.kind = "value"
                /\ response'.res = AnnounceLookup(activities', procs[p].announce_id)]_vars

\* a record was stored and, later, its lookup was answered with it
LedgerPermanenceWitness ==
    /\ activities # {}
    /\ response.op = "announce_activity"
    /\ response.res.kind = "value"

(***************************************************************************)
(* C8: every Create that passed the object and the membership checks, and  *)
(* so called announce_object, has stored exactly one GroupActivity when it *)
(* ends, whether announce_object returned or raised.                       *)
(***************************************************************************)
AppendDespiteTransportFailure ==
    \A call \in announced :
        (\A p \in Workers :
            ~(Running(p) /\ procs[p].op = "Create"
              /\ procs[p].pc \in {"create_announce", "create_save"}
              /\ procs[p].announce_uri = call.announce_uri))
        => Cardinality({a \in activities : <<AnnounceUrl(a.id)>> = call.announce_uri}) = 1

(***************************************************************************)
(* C9: no member of a group is named twice as recipient of the announce of *)
(* one created object, also when the Create of that object is delivered    *)
(* more than once.                                                         *)
(***************************************************************************)
RecipientNamedOnce ==
    \A c1, c2 \in announced :
        (c1 # c2 /\ c1.group = c2.group /\ c1.activity_id = c2.activity_id)
        => c1.members \cap c2.members = {}

(***************************************************************************)
(* C10: the GroupActivity table changes only by a Create that ends with a  *)
(* record, and each such Create adds exactly one record: its id is new,    *)
(* its type "Announce", its group the Create's group, its object the       *)
(* identifier supplied (the bare string, or the id of the embedded         *)
(* object), and the Create returns that record serialized.                 *)
(***************************************************************************)
\* the identifier a Create activity supplies
SuppliedId(object) == IF object.kind = "str" THEN object.v ELSE object.id.v

\* worker p ends a Create with a record
CreateSucceeds(p) ==
    /\ Running(p) /\ procs[p].op = "Create"
    /\ ~Running(p)'
    /\ response'.res.kind = "value"

OneRecordPerCreate ==
    [][/\ (activities' # activities) <=> (\E p \in Workers : CreateSucceeds(p))
       /\ \A p \in Workers :
             CreateSucceeds(p) =>
                \E r \in activities' :
                   /\ activities' = activities \cup {r}
                   /\ \A a \in activities : a.id # r.id
                   /\ r.type = "Announce"
                   /\ r.group_id = procs[p].group
                   /\ JsonLoads(r.object) = SuppliedId(procs[p].object)
                   /\ response' = [op |-> "Create", res |-> Returned(
                         [id |-> AnnounceUrl(r.id), type |-> "Announce",
                          actor |-> ActorUrl(procs[p].group),
                          object |-> SuppliedId(procs[p].object)])]]_vars

\* a Create of an embedded object, whose id holds a backslash and a double
\* quote, returned its record
OneRecordPerCreateWitness ==
    /\ response.op = "Create"
    /\ response.res.kind = "value"
    /\ response.res.value.object = <<"b", "q">>
    /\ Cardinality(activities) = 1

(***************************************************************************)
(* C11: a Group once registered keeps its name and its summary, whatever   *)
(* make_group requests are handled, one after the other or concurrently;   *)
(* a make_group of a registered id fails, and of two concurrent make_group *)
(* requests of one id only one succeeds: a make_group that returns ok has  *)
(* registered an id that was not registered when it saved.                 *)
(***************************************************************************)
RegisteredGroupKept ==
    [][/\ \A id \in DOMAIN groups :
             id \in DOMAIN groups' /\ groups'[id] = groups[id]
       /\ \A p \in Workers :
             (Ends(p) /\ procs[p].op = "make_group" /\ response'.res.kind = "value")
             => procs[p].group \notin DOMAIN groups]_vars

(***************************************************************************)
(* C12: an Undo whose inner action has a type other than "Follow" in any   *)
(* casing, or has no type, is answered "done" and changes no table and     *)
(* calls no collaborator, whatever the inner actor and target are; an Undo *)
(* whose inner type is "Follow" in any casing goes on to the actor check   *)
(* and then to the target check.                                           *)
(***************************************************************************)
UndoOfOtherTypeIgnored ==
    [][\A p \in Workers, a \in Actors, g \in GroupIds, ty \in InnerTypes,
          ia \in Actors, t \in GroupIds :
          Undo(p, a, g, ty, ia, ActorUrl(t)) =>
             IF ty \notin {Some("Follow"), Some("follow"), Some("FOLLOW")}
             THEN /\ response' = [op |-> "Undo", res |-> Done]
                  /\ ~Running(p)'
                  /\ UNCHANGED <<groups, members, activities, accepts, announced>>
             ELSE IF ia # a
               THEN response'.res = Abort(400, "Inconsistant follow activity")
             ELSE IF t # g
               THEN response'.res = Abort(400, "Wrong target")
             ELSE procs'[p].pc = "undo_query"]_vars

(***************************************************************************)
(* C13: a Follow, or an Undo of a Follow, whose target is not the actor    *)
(* URI of the group, an Undo of a Follow whose inner actor is not the      *)
(* actor of the Undo, and a Create with no object or with an embedded      *)
(* object that has no id, are each answered with a rejection (400) by the  *)
(* step that receives them; no table changes, accept_object and            *)
(* announce_object are not called, and no handler is left running for the  *)
(* activity.  (Each request received is counted by nreq.)                  *)
(***************************************************************************)
\* worker p answers the request op with a rejection and nothing else changes
Rejects(p, op) ==
    /\ response'.op = op
    /\ response'.res.kind = "abort"
    /\ response'.res.code = 400
    /\ procs' = [procs EXCEPT ![p] = Idle]
    /\ UNCHANGED <<groups, members, activities, uuids, accepts, announced>>

FollowCasings == {Some("Follow"), Some("follow"), Some("FOLLOW")}

RejectionChangesNothing ==
    [][nreq' # nreq =>
       \A p \in Workers, a \in Actors, g \in GroupIds :
          /\ \A t \in GroupIds \ {g} :
                Follow(p, a, g, ActorUrl(t)) => Rejects(p, "Follow")
          /\ \A ty \in FollowCasings, ia \in Actors, t \in GroupIds :
                ((ia # a \/ t # g) /\ Undo(p, a, g, ty, ia, ActorUrl(t)))
                => Rejects(p, "Undo")
          /\ \A o \in CreateObjects :
                ((~o.some \/ (o.kind = "dict" /\ ~o.id.some)) /\ Create(p, a, g, o))
                => Rejects(p, "Create")]_vars

\* a Create without the id of its object was rejected while the group had a
\* member and the handler of another request was running
RejectionChangesNothingWitness ==
    /\ response = [op |-> "Create", res |-> Abort(400, "not external activity id")]
    /\ members # {}
    /\ \E p \in Workers : Running(p)

(***************************************************************************)
(* C14: a Delete activity, and an activity of a type no handler is         *)
(* registered for, are answered by the step that receives them, not with   *)
(* an error; the tables GroupMember and GroupActivity are left as they     *)
(* are, and accept_object and announce_object are not called.              *)
(***************************************************************************)
\* worker p answers the request op, not with an error, and no table changes
Ignores(p, op) ==
    /\ response'.op = op
    /\ response'.res.kind \notin {"abort", "raise"}
    /\ procs' = [procs EXCEPT ![p] = Idle]
    /\ UNCHANGED <<groups, members, activities, accepts, announced>>

UnhandledTypesIgnored ==
    [][nreq' # nreq =>
       \A p \in Workers, a \in Actors, g \in GroupIds :
          /\ Delete(p, a, g) => Ignores(p, "Delete")
          /\ \A ty \in UnknownTypes :
                FollowDefault(p, a, g, ty) => Ignores(p, ty)]_vars

\* a Delete by a member of the group was answered
UnhandledTypesIgnoredWitness ==
    /\ response = [op |-> "Delete", res |-> ReturnedNone]
    /\ members # {}
    /\ nreq = MaxRequests

(***************************************************************************)
(* C15: no step of followers changes a table or calls a collaborator, and  *)
(* a followers request of group G that is handled while no other request   *)
(* is, returns the collection whose totalItems is the number of members of *)
(* G and whose orderedItems are the follower ids of the members of G, each *)
(* once, and of no one else: the empty list when G has no member.          *)
(***************************************************************************)
FollowersIsPureRead ==
    [][\A p \in Workers :
          /\ (\E g \in GroupIds : Followers(p, g))
             => UNCHANGED <<groups, members, activities, uuids, accepts, announced>>
          /\ (Steps(p) /\ procs[p].op = "followers")
             => /\ UNCHANGED <<groups, members, activities, uuids, accepts, announced>>
                /\ ~Running(p)' =>
                      /\ response'.op = "followers"
                      /\ response'.res.kind = "value"
                      /\ response'.res.value.type = "OrderedCollection"
                      /\ response'.res.value.totalItems
                            = Cardinality(MembersOf(members, procs[p].group))
                      /\ Len(response'.res.value.orderedItems)
                            = Cardinality(MembersOf(members, procs[p].group))
                      /\ Range(response'.res.value.orderedItems)
                            = MembersOf(members, procs[p].group)]_vars

\* followers listed the one member of a group while the other group had a
\* member too
FollowersIsPureReadWitness ==
    /\ Quiescent
    /\ response.op = "followers"
    /\ response.res.kind = "value"
    /\ Len(response.res.value.orderedItems) = 1
    /\ Cardinality({m.group_id : m \in members}) = 2

(***************************************************************************)
(* C16: accept_object is called for follower F and group G only by a       *)
(* Follow handler that has saved an edge of F to G, once by each such      *)
(* handler, and each save of an edge takes F from no member to member of   *)
(* G: a Follow of a member saves nothing and calls no accept_object.  So   *)
(* under any interleaving the Accepts sent to F for G number the times F   *)
(* went from no member to member of G.                                     *)
(***************************************************************************)
\* worker p runs the handler of a Follow of group g by follower f at pc
FollowAt(p, pc, g, f) ==
    /\ procs[p].pc = pc
    /\ procs[p].group = g
    /\ procs[p].actor = f

AcceptPerJoin ==
    [][\A g \in GroupIds, f \in Actors :
          LET joins == EdgesOf(members, g, f) = {} /\ EdgesOf(members', g, f) # {}
              saves == \E p \in Workers : FollowAt(p, "follow_save", g, f) /\ Steps(p)
              accepted == accepts'[<<g, f>>] - accepts[<<g, f>>]
          IN /\ accepted \in {0, 1}
             /\ accepted = 1 <=>
                   \E p \in Workers : FollowAt(p, "follow_accept", g, f) /\ Steps(p)
             /\ saves => \E p \in Workers : FollowAt(p, "follow_accept", g, f)'
             /\ joins <=> saves]_vars

(***************************************************************************)
(* C17: when an Undo of a Follow of group G by follower F, with consistent *)
(* actor and right target, is answered "done", and no Follow of G by F was *)
(* being handled while the Undo was, F has no edge to G left, whatever was *)
(* handled, and however interleaved, before the Undo.                      *)
(***************************************************************************)
UndoLeavesNoEdge ==
    [][\A p \in Workers :
          (/\ Ends(p)
           /\ procs[p].op = "Undo"
           /\ response'.res = Done)
          => EdgesOf(members', procs[p].group, procs[p].actor) = {}]_vars

(***************************************************************************)
(* C18: in every state, each announce URI that announce_object has been    *)
(* called with is the URI of a GroupActivity that is stored: the lookup of *)
(* its announce id by announce_activity returns the record, never 404.     *)
(***************************************************************************)
AnnouncedIsStored ==
    \A call \in announced :
        \E id \in 1..uuids :
            /\ AnnounceUrl(id) \in Range(call.announce_uri)
            /\ AnnounceLookup(activities, id).kind = "value"

(***************************************************************************)
(* C19: a Create that ends with a record has called announce_object with   *)
(* an announce URI that is equal to the id of the serialized record it     *)
(* returns, which is the id of the record that announce_activity serves    *)
(* for its announce id.                                                    *)
(***************************************************************************)
AnnouncedUriIsRecordId ==
    [][\A p \in Workers :
          CreateSucceeds(p) =>
             /\ AnnounceCall(p) \in announced
             /\ AnnounceCall(p).announce_uri = response'.res.value.id
             /\ AnnounceLookup(activities', procs[p].announce_id)
                   = Returned(response'.res.value)]_vars

(***************************************************************************)
(* C20: in every collection that followers returns, totalItems is the      *)
(* number of entries of orderedItems, also when a Follow or an Undo of the *)
(* group is handled between the count query and the list query.            *)
(***************************************************************************)
TotalItemsIsLength ==
    response.op = "followers" =>
        /\ response.res.kind = "value"
        /\ response.res.value.totalItems = Len(response.res.value.orderedItems)

=============================================================================
